---- MODULE Spec2Model ----
(***************************************************************************)
(* arc-monitor: a poll loop (Server.Tick) that fetches a checksum and a    *)
(* Last-Modified time, compares them with the record loaded from           *)
(* arcdps.yml, posts a webhook when the checksum changed, and a main       *)
(* goroutine that cancels the loop on a signal and writes the record back. *)
(*                                                                         *)
(* Strings are sequences of one-character strings.  Times are small        *)
(* naturals, 0 being Go's zero time.Time.                                  *)
(***************************************************************************)
EXTENDS Naturals, Sequences, FiniteSets

\* ------------------------------------------------------------------ bounds
MaxBody  == 2      \* longest checksum response body, in characters
MaxTs    == 2      \* distinct Last-Modified instants the server can report
MaxTicks == 2      \* ticker firings per process run
MaxRuns  == 2      \* process runs (one restart)

\* ------------------------------------------------------------- vocabulary
Alphabet == {"a", "b"}
Space    == " "
NL       == "\n"
KeyTimestamp == "timestamp: "
KeyCheckSum  == "check_sum: "
DQuote   == "\""
Digits   == <<"0", "1", "2", "3", "4", "5", "6", "7", "8", "9">>

BoundedSeq(S, n) == UNION {[1..k -> S] : k \in 0..n}

Bodies   == BoundedSeq(Alphabet \cup {Space}, MaxBody)
Times    == 1..MaxTs
Statuses == {200, 299, 300, 500}
\* Last-Modified header: absent, not RFC 1123, or a date
Headers  == {[kind |-> "missing", t |-> 0], [kind |-> "garbage", t |-> 0]}
              \cup {[kind |-> "date", t |-> t] : t \in Times}

ZeroTime == 0
ZeroRecord == [CheckSum |-> <<>>, Timestamp |-> ZeroTime]

\* ------------------------------------------------------- pure operations
\* index of the first sep in s at or after i, 0 when there is none
RECURSIVE IndexFrom(_, _, _)
IndexFrom(s, sep, i) ==
  IF i > Len(s) THEN 0
  ELSE IF s[i] = sep THEN i ELSE IndexFrom(s, sep, i + 1)

\* strings.Split(s, sep) for a one-character sep
RECURSIVE SplitOn(_, _)
SplitOn(s, sep) ==
  LET i == IndexFrom(s, sep, 1) IN
  IF i = 0 THEN <<s>>
  ELSE <<SubSeq(s, 1, i - 1)>> \o SplitOn(SubSeq(s, i + 1, Len(s)), sep)

\* time.Parse(time.RFC1123, resp.Header.Get("Last-Modified"))
ParseRFC1123(h) ==
  IF h.kind = "date" THEN [err |-> FALSE, t |-> h.t]
  ELSE [err |-> TRUE, t |-> ZeroTime]

\* fmt.Sprintf with the value between two backquotes
BackQuote == "bq"   \* stands for the backquote character
Backtick(s) == <<BackQuote>> \o s \o <<BackQuote>>

\* time.Time.String(), and the RFC 3339 text yaml writes: fixed width
TimeText(t) == <<Digits[t + 1]>>

ParseTimeText(s) ==
  IF Len(s) = 1 /\ \E t \in 0..9 : Digits[t + 1] = s[1]
  THEN [err |-> FALSE, t |-> CHOOSE t \in 0..9 : Digits[t + 1] = s[1]]
  ELSE [err |-> TRUE, t |-> ZeroTime]

\* ------------------------------------------------------------ arcdps.yml
\* yaml text of a string scalar: the empty string is written as ""
ScalarText(cs) == IF cs = <<>> THEN <<DQuote, DQuote>> ELSE cs

\* yaml.NewEncoder(f).Encode(arcdps): the fields in declaration order
EncodeYAML(r) ==
  <<KeyTimestamp>> \o TimeText(r.Timestamp) \o <<NL>>
    \o <<KeyCheckSum>> \o ScalarText(r.CheckSum) \o <<NL>>

\* one line of a block mapping decoded into the struct
DecodeLine(line, rec) ==
  LET v == Tail(line) IN
  IF line[1] = KeyTimestamp THEN
    IF v = <<>> THEN [err |-> FALSE, rec |-> rec]
    ELSE LET p == ParseTimeText(v) IN
         [err |-> p.err, rec |-> [rec EXCEPT !.Timestamp = p.t]]
  ELSE IF line[1] = KeyCheckSum THEN
    IF v = <<>> THEN [err |-> FALSE, rec |-> rec]
    ELSE IF v = <<DQuote, DQuote>>
      THEN [err |-> FALSE, rec |-> [rec EXCEPT !.CheckSum = <<>>]]
    ELSE IF \A i \in 1..Len(v) : v[i] \in Alphabet
      THEN [err |-> FALSE, rec |-> [rec EXCEPT !.CheckSum = v]]
    ELSE [err |-> TRUE, rec |-> rec]
  ELSE [err |-> TRUE, rec |-> rec]   \* a line that is no "key: value"

RECURSIVE DecodeLines(_, _, _)
DecodeLines(lines, i, rec) ==
  IF i > Len(lines) THEN [err |-> FALSE, rec |-> rec]
  ELSE IF lines[i] = <<>> THEN DecodeLines(lines, i + 1, rec)
  ELSE LET d == DecodeLine(lines[i], rec) IN
       IF d.err THEN d ELSE DecodeLines(lines, i + 1, d.rec)

\* yaml.NewDecoder(f).Decode(&arcdps) into a fresh struct; io.EOF (an empty
\* file) is not an error and leaves the zero record
DecodeYAML(bytes) == DecodeLines(SplitOn(bytes, NL), 1, ZeroRecord)

\* f.Seek(0, 0) then a write of enc: the file is opened O_RDWR|O_CREATE and
\* is not truncated, so bytes past the end of enc stay
WriteAtStart(old, enc) ==
  IF Len(old) > Len(enc) THEN enc \o SubSeq(old, Len(enc) + 1, Len(old))
  ELSE enc

\* ------------------------------------------------------------ HTTP calls
\* a response: fail is a transport error (timeout, cancelled context)
FailedResp == [fail |-> TRUE, status |-> 0, body |-> <<>>,
               lm |-> [kind |-> "missing", t |-> 0]]
Resp(st, b, h) == [fail |-> FALSE, status |-> st, body |-> b, lm |-> h]

\* Server.GetChecksum, two-request variant (cmd/arcmon/main.go)
GetChecksum(resp) ==
  IF resp.fail THEN [err |-> TRUE, check |-> <<>>]
  ELSE IF resp.status > 299 THEN [err |-> TRUE, check |-> <<>>]
  ELSE LET checkSumSplit == SplitOn(resp.body, Space) IN
       IF Len(checkSumSplit) < 2 THEN [err |-> TRUE, check |-> <<>>]
       ELSE [err |-> FALSE, check |-> checkSumSplit[1]]

\* Server.GetChecksum, one-request variant: Last-Modified of the same
\* response, parsed before the body is split
GetChecksumLM(resp) ==
  IF resp.fail THEN [err |-> TRUE, check |-> <<>>, lastModified |-> ZeroTime]
  ELSE IF resp.status > 299
    THEN [err |-> TRUE, check |-> <<>>, lastModified |-> ZeroTime]
  ELSE LET p == ParseRFC1123(resp.lm)
           checkSumSplit == SplitOn(resp.body, Space) IN
       IF p.err THEN [err |-> TRUE, check |-> <<>>, lastModified |-> ZeroTime]
       ELSE IF Len(checkSumSplit) < 2
         THEN [err |-> TRUE, check |-> <<>>, lastModified |-> ZeroTime]
       ELSE [err |-> FALSE, check |-> checkSumSplit[1], lastModified |-> p.t]

\* GetVersion without its status check
GetVersionNoStatusCheck(resp) ==
  IF resp.fail THEN [err |-> TRUE, version |-> ZeroTime]
  ELSE LET p == ParseRFC1123(resp.lm) IN
       IF p.err THEN [err |-> TRUE, version |-> ZeroTime]
       ELSE [err |-> FALSE, version |-> p.t]

\* Server.GetVersion
GetVersion(resp) ==
  IF resp.fail THEN [err |-> TRUE, version |-> ZeroTime]
  ELSE IF resp.status > 299 THEN [err |-> TRUE, version |-> ZeroTime]
  ELSE LET p == ParseRFC1123(resp.lm) IN
       IF p.err THEN [err |-> TRUE, version |-> ZeroTime]
       ELSE [err |-> FALSE, version |-> p.t]

\* Server.SendWebHook: the error it returns
SendWebHook(resp) == resp.fail \/ resp.status > 299

\* the two arguments in the wrong order
WebHookArgsSwapped(chk, ver) ==
  [checksum |-> Backtick(TimeText(ver)), time |-> Backtick(chk)]

\* the two arguments Tick passes to SendWebHook
WebHookArgs(chk, ver) ==
  [checksum |-> Backtick(chk), time |-> Backtick(TimeText(ver))]

\* Compare without the first-run branch
CompareNoInitial(rec, chk, ver) ==
  IF rec.CheckSum # chk THEN "new" ELSE "same"

\* Compare that also reports a changed timestamp
CompareWithTimestamp(rec, chk, ver) ==
  IF rec.CheckSum = <<>> THEN "initial"
  ELSE IF rec.CheckSum # chk \/ rec.Timestamp # ver THEN "new"
  ELSE "same"

\* the branch Tick takes once both values are fetched
Compare(rec, chk, ver) ==
  IF rec.CheckSum = <<>> THEN "initial"
  ELSE IF rec.CheckSum # chk THEN "new"
  ELSE "same"

\* a Tick that skips the update when the webhook failed
AfterWebHookSkipOnError(err) == IF err THEN "select" ELSE "set_cs"

\* where Tick goes after SendWebHook returned err: the record is set anyway
AfterWebHook(err) == "set_cs"

\* ------------------------------------------------------------------ state
VARIABLES
  variant,   \* "two": GET + HEAD (cmd/arcmon/main.go); "one": GET only
  file,      \* bytes of arcdps.yml
  arcdps,    \* the shared *ArcDPSVersion
  mainpc,    \* position of main
  tickpc,    \* position of the goroutine running Server.Tick
  ctxDone,   \* cncl() was called
  tickerC,   \* ticker.C holds a tick (a channel of capacity 1)
  check,     \* Tick's local: fetched checksum
  version,   \* Tick's local: fetched Last-Modified
  buf,       \* what the encoder has read of the record so far
  run,       \* process runs started
  ticks,     \* ticker firings in this run
  tk,        \* observation of the tick in progress or last completed
  hist       \* observation across ticks and runs

vars == <<variant, file, arcdps, mainpc, tickpc, ctxDone, tickerC, check,
          version, buf, run, ticks, tk, hist>>

NoTick == [phase |-> "none", pre |-> ZeroRecord, failed |-> FALSE, ok |-> FALSE,
           remote |-> ZeroRecord, repeat |-> FALSE, afterSendErr |-> FALSE,
           sent |-> <<>>, reqs |-> <<>>]
NoPrev == [ok |-> FALSE, cs |-> <<>>]

\* a state file left by an earlier run, or none (created empty by OpenFile)
PriorChecksums == BoundedSeq({"a"}, MaxBody + 1) \ {<<>>}
PriorFiles ==
  {<<>>} \cup {EncodeYAML([CheckSum |-> c, Timestamp |-> 1]) : c \in PriorChecksums}

Init ==
  /\ variant \in {"two", "one"}
  /\ file \in PriorFiles
  /\ arcdps = ZeroRecord
  /\ mainpc = "open"
  /\ tickpc = "idle"
  /\ ctxDone = FALSE
  /\ tickerC = FALSE
  /\ check = <<>>
  /\ version = ZeroTime
  /\ buf = ZeroRecord
  /\ run = 1
  /\ ticks = 0
  /\ tk = NoTick
  /\ hist = [prev |-> NoPrev, saved |-> FALSE, lastSaved |-> ZeroRecord,
             loadErr |-> FALSE, loaded |-> ZeroRecord]

\* the process exists and main has started the goroutine
Alive == mainpc \in {"waitsig", "encode_ts", "encode_cs", "write"}

\* -------------------------------------------------------------------- main
\* main, lines 40-56: open, decode or die, NewServer, go s.Tick(ctx)
MainLoad ==
  /\ mainpc = "open"
  /\ LET d == DecodeYAML(file) IN
     /\ hist' = [hist EXCEPT !.loadErr = d.err, !.loaded = d.rec]
     /\ IF d.err
        THEN /\ mainpc' = "fatal"
             /\ UNCHANGED <<arcdps, tickpc>>
        ELSE /\ mainpc' = "waitsig"
             /\ arcdps' = d.rec
             /\ tickpc' = "select"
  /\ UNCHANGED <<variant, file, ctxDone, tickerC, check, version, buf, run,
                 ticks, tk>>

\* main, lines 59-62: the signal arrives, cncl(), rewind
MainSignal ==
  /\ mainpc = "waitsig"
  /\ ctxDone' = TRUE
  /\ mainpc' = "encode_ts"
  /\ UNCHANGED <<variant, file, arcdps, tickpc, tickerC, check, version, buf,
                 run, ticks, tk, hist>>

\* main, line 63: the encoder reads arcdps.Timestamp, with no lock held
MainEncodeTimestamp ==
  /\ mainpc = "encode_ts"
  /\ buf' = [buf EXCEPT !.Timestamp = arcdps.Timestamp]
  /\ mainpc' = "encode_cs"
  /\ UNCHANGED <<variant, file, arcdps, tickpc, ctxDone, tickerC, check,
                 version, run, ticks, tk, hist>>

\* main, line 63: the encoder reads arcdps.CheckSum, with no lock held
MainEncodeCheckSum ==
  /\ mainpc = "encode_cs"
  /\ buf' = [buf EXCEPT !.CheckSum = arcdps.CheckSum]
  /\ mainpc' = "write"
  /\ UNCHANGED <<variant, file, arcdps, tickpc, ctxDone, tickerC, check,
                 version, run, ticks, tk, hist>>

\* main, lines 63-67: the document is written at offset 0, f.Close(), return:
\* the process ends and the goroutine with it
MainWrite ==
  /\ mainpc = "write"
  /\ file' = WriteAtStart(file, EncodeYAML(buf))
  /\ mainpc' = "exited"
  /\ hist' = [hist EXCEPT !.saved = TRUE, !.lastSaved = buf]
  /\ UNCHANGED <<variant, arcdps, tickpc, ctxDone, tickerC, check, version,
                 buf, run, ticks, tk>>

\* the program is started again on the same directory
Restart ==
  /\ mainpc = "exited"
  /\ run < MaxRuns
  /\ run' = run + 1
  /\ mainpc' = "open"
  /\ tickpc' = "idle"
  /\ arcdps' = ZeroRecord
  /\ ctxDone' = FALSE
  /\ tickerC' = FALSE
  /\ check' = <<>>
  /\ version' = ZeroTime
  /\ buf' = ZeroRecord
  /\ ticks' = 0
  /\ tk' = NoTick
  /\ hist' = [hist EXCEPT !.prev = NoPrev]
  /\ UNCHANGED <<variant, file>>

\* ------------------------------------------------------------------ ticker
\* time.NewTicker: a firing into a full channel is dropped
TickerFire ==
  /\ Alive
  /\ tickpc \notin {"idle", "stopped"}
  /\ ~tickerC
  /\ ticks < MaxTicks
  /\ tickerC' = TRUE
  /\ ticks' = ticks + 1
  /\ UNCHANGED <<variant, file, arcdps, mainpc, tickpc, ctxDone, check,
                 version, buf, run, tk, hist>>

\* -------------------------------------------------------------- Server.Tick
\* the responses the transport can hand back; once the context is cancelled
\* http.Client.Do returns the context's error
GetResponses ==
  IF ctxDone THEN {FailedResp}
  ELSE {FailedResp} \cup
       {Resp(st, b, h) : st \in Statuses, b \in Bodies,
                         h \in IF variant = "one" THEN Headers ELSE {FailedResp.lm}}
HeadResponses ==
  IF ctxDone THEN {FailedResp}
  ELSE {FailedResp} \cup {Resp(st, <<>>, h) : st \in Statuses, h \in Headers}
PostResponses ==
  IF ctxDone THEN {FailedResp}
  ELSE {FailedResp} \cup {Resp(st, <<>>, FailedResp.lm) : st \in Statuses}

\* ---- observation of a tick, read off the responses themselves
\* what the specification calls a failure of the Remote Checker
OneToken(body) == \A i \in 1..Len(body) : body[i] # Space
BadStatus(resp) == resp.status >= 300
ChecksumRequestFails(resp) == resp.fail \/ BadStatus(resp) \/ OneToken(resp.body)
TimestampRequestFails(resp) == resp.fail \/ BadStatus(resp) \/ resp.lm.kind # "date"
FirstToken(body) == SubSeq(body, 1, IndexFrom(body, Space, 1) - 1)

ObsChecksum(t, resp) ==
  [t EXCEPT !.failed = @ \/ ChecksumRequestFails(resp),
            !.remote.CheckSum = IF ChecksumRequestFails(resp) THEN <<>>
                                ELSE FirstToken(resp.body)]
ObsTimestamp(t, resp) ==
  [t EXCEPT !.failed = @ \/ TimestampRequestFails(resp),
            !.remote.Timestamp = IF TimestampRequestFails(resp) THEN ZeroTime
                                 ELSE resp.lm.t]
\* both values are in: did the previous successful fetch return this checksum
ObsFetched(t) ==
  IF t.failed THEN t
  ELSE [t EXCEPT !.ok = TRUE,
                 !.repeat = hist.prev.ok /\ hist.prev.cs = t.remote.CheckSum]
HistFetched(t) ==
  IF t.failed THEN hist
  ELSE [hist EXCEPT !.prev = [ok |-> TRUE, cs |-> t.remote.CheckSum]]

\* the tick is over: back to the select
EndTick(t) == [t EXCEPT !.phase = "done"]

\* lines 104-120 once check and version are known
Branch(t, chk, ver) ==
  LET br == Compare(arcdps, chk, ver) IN
  /\ check' = chk
  /\ version' = ver
  /\ IF br = "initial" THEN tickpc' = "set_cs" /\ tk' = t
     ELSE IF br = "new" THEN tickpc' = "send" /\ tk' = t
     ELSE tickpc' = "select" /\ tk' = EndTick(t)

\* select, case <-ticker.C
TickSelectTicker ==
  /\ Alive
  /\ tickpc = "select"
  /\ tickerC
  /\ tickerC' = FALSE
  /\ tickpc' = "get_checksum"
  /\ tk' = [NoTick EXCEPT !.phase = "running", !.pre = arcdps,
                          !.afterSendErr = \E i \in 1..Len(tk.sent) : tk.sent[i].err]
  /\ check' = <<>>
  /\ version' = ZeroTime
  /\ UNCHANGED <<variant, file, arcdps, mainpc, ctxDone, buf, run, ticks, hist>>

\* select, case <-ctx.Done(): ticker.Stop(), return
TickSelectDone ==
  /\ Alive
  /\ tickpc = "select"
  /\ ctxDone
  /\ tickpc' = "stopped"
  /\ UNCHANGED <<variant, file, arcdps, mainpc, ctxDone, tickerC, check,
                 version, buf, run, ticks, tk, hist>>

\* line 94: s.GetChecksum(ctx)
TickGetChecksum ==
  /\ Alive
  /\ tickpc = "get_checksum"
  /\ \E resp \in GetResponses :
       LET t == ObsChecksum([tk EXCEPT !.reqs = Append(@, "GET")], resp) IN
       IF variant = "two"
       THEN LET r == GetChecksum(resp) IN
            /\ hist' = hist
            /\ IF r.err
               THEN /\ tickpc' = "select"
                    /\ tk' = EndTick(t)
                    /\ UNCHANGED <<check, version>>
               ELSE /\ tickpc' = "get_version"
                    /\ check' = r.check
                    /\ tk' = t
                    /\ UNCHANGED version
       ELSE LET r == GetChecksumLM(resp)
                t2 == ObsFetched(ObsTimestamp(t, resp)) IN
            /\ hist' = HistFetched(t2)
            /\ IF r.err
               THEN /\ tickpc' = "select"
                    /\ tk' = EndTick(t2)
                    /\ UNCHANGED <<check, version>>
               ELSE Branch(t2, r.check, r.lastModified)
  /\ UNCHANGED <<variant, file, arcdps, mainpc, ctxDone, tickerC, buf, run, ticks>>

\* line 99: s.GetVersion(ctx)
TickGetVersion ==
  /\ Alive
  /\ tickpc = "get_version"
  /\ \E resp \in HeadResponses :
       LET r == GetVersion(resp)
           t == ObsFetched(ObsTimestamp([tk EXCEPT !.reqs = Append(@, "HEAD")], resp)) IN
       /\ hist' = HistFetched(t)
       /\ IF r.err
          THEN /\ tickpc' = "select"
               /\ tk' = EndTick(t)
               /\ UNCHANGED <<check, version>>
          ELSE Branch(t, check, r.version)
  /\ UNCHANGED <<variant, file, arcdps, mainpc, ctxDone, tickerC, buf, run, ticks>>

\* lines 112-117: s.SendWebHook, its error only logged
TickSendWebHook ==
  /\ Alive
  /\ tickpc = "send"
  /\ \E resp \in PostResponses :
       LET err == SendWebHook(resp)
           t == [tk EXCEPT !.reqs = Append(@, "POST"),
                           !.sent = Append(@, [args |-> WebHookArgs(check, version),
                                               err |-> err])] IN
       /\ tickpc' = AfterWebHook(err)
       /\ tk' = IF tickpc' = "select" THEN EndTick(t) ELSE t
  /\ UNCHANGED <<variant, file, arcdps, mainpc, ctxDone, tickerC, check,
                 version, buf, run, ticks, hist>>

\* lines 106 and 118: s.arcdps.CheckSum = check
TickSetCheckSum ==
  /\ Alive
  /\ tickpc = "set_cs"
  /\ arcdps' = [arcdps EXCEPT !.CheckSum = check]
  /\ tickpc' = "set_ts"
  /\ UNCHANGED <<variant, file, mainpc, ctxDone, tickerC, check, version, buf,
                 run, ticks, tk, hist>>

\* lines 107 and 119: s.arcdps.Timestamp = version
TickSetTimestamp ==
  /\ Alive
  /\ tickpc = "set_ts"
  /\ arcdps' = [arcdps EXCEPT !.Timestamp = version]
  /\ tickpc' = "select"
  /\ tk' = EndTick(tk)
  /\ UNCHANGED <<variant, file, mainpc, ctxDone, tickerC, check, version, buf,
                 run, ticks, hist>>

Next ==
  \/ MainLoad
  \/ MainSignal
  \/ MainEncodeTimestamp
  \/ MainEncodeCheckSum
  \/ MainWrite
  \/ TickerFire
  \/ TickSelectTicker
  \/ TickSelectDone
  \/ TickGetChecksum
  \/ TickGetVersion
  \/ TickSendWebHook
  \/ TickSetCheckSum
  \/ TickSetTimestamp

Spec == Init /\ [][Next]_vars

\* the same, with the program started again after it exited
NextRestart == Next \/ Restart
SpecRestart == Init /\ [][NextRestart]_vars

\* ================================================================== claims
TickDone == tk.phase = "done"
Changed == tk.ok /\ tk.pre.CheckSum # <<>> /\ tk.remote.CheckSum # tk.pre.CheckSum
FirstRun == tk.ok /\ tk.pre.CheckSum = <<>>
Unchanged == tk.ok /\ tk.pre.CheckSum # <<>> /\ tk.remote.CheckSum = tk.pre.CheckSum
Notification ==
  [checksum |-> Backtick(tk.remote.CheckSum),
   time |-> Backtick(TimeText(tk.remote.Timestamp))]

\* C1: a tick whose fetch succeeds with a checksum different from the stored
\* non-empty one calls the webhook exactly once, with the fetched checksum and
\* timestamp, and ends with the record equal to the fetched values.
C1_ChangeNotifiesOnce ==
  (TickDone /\ Changed) =>
     /\ Len(tk.sent) = 1
     /\ tk.sent[1].args = Notification
     /\ arcdps = tk.remote

C1_Witness ==
  /\ TickDone /\ Changed
  /\ Len(tk.sent) = 1
  /\ tk.remote.Timestamp # tk.pre.Timestamp

\* C2: a tick that starts with an empty stored checksum and whose fetch
\* succeeds adopts the fetched values and calls the webhook zero times.
C2_FirstRunSilent ==
  (TickDone /\ FirstRun) => (arcdps = tk.remote /\ tk.sent = <<>>)

C2_Witness ==
  TickDone /\ FirstRun /\ tk.remote.CheckSum # <<>> /\ arcdps = tk.remote

C4_SameChecksumNoAction ==
  (TickDone /\ Unchanged) => (tk.sent = <<>> /\ arcdps = tk.pre)

C4_Witness ==
  TickDone /\ Unchanged /\ tk.remote.Timestamp # tk.pre.Timestamp

\* C5: when the webhook call fails the record is still set to the fetched
\* values in that tick; a tick calls the webhook at most once; and a
\* successful fetch that returns the checksum of the previous successful
\* fetch calls no webhook.
C5_FailedNotifyNotRetried ==
  /\ (TickDone /\ tk.ok /\ \E i \in 1..Len(tk.sent) : tk.sent[i].err)
        => arcdps = tk.remote
  /\ Len(tk.sent) <= 1
  /\ (tk.ok /\ tk.repeat) => tk.sent = <<>>

\* the tick after one whose webhook call failed, same checksum fetched again
C5_Witness ==
  TickDone /\ tk.ok /\ tk.repeat /\ tk.afterSendErr /\ arcdps = tk.remote

\* C6: no tick makes a non-empty stored checksum empty, whatever body the
\* checksum endpoint returns.
C6_ChecksumNeverCleared ==
  (TickDone /\ tk.pre.CheckSum # <<>>) => arcdps.CheckSum # <<>>

\* C7: the record main wrote to the file is the final record of the poll
\* loop.
C7_SavedIsFinalRecord ==
  mainpc = "exited" => hist.lastSaved = arcdps

\* C8: after the save the file holds exactly the encoding of the record that
\* was saved.
C8_SaveOverwritesFile ==
  mainpc = "exited" => file = EncodeYAML(hist.lastSaved)

\* C9: the load of the next start does not fail and yields the record the
\* previous run saved.
C9_RoundTripAcrossRestart ==
  (run > 1 /\ mainpc \notin {"open", "exited"})
     => (~hist.loadErr /\ hist.loaded = hist.lastSaved)

\* C10: once cncl() was called the loop starts no new tick, and once Tick has
\* returned it stays returned and the record and the tick's requests stay as
\* they are.
C10_NoTickAfterCancel ==
  [][/\ (ctxDone /\ tickpc = "select") => tickpc' \in {"select", "stopped"}
     /\ tickpc = "stopped" => (tickpc' = "stopped" /\ arcdps' = arcdps /\ tk' = tk)]_vars

====
